---- MODULE Spec2Model ----
(***************************************************************************)
(* Model of torque's ORM layer (src/src/torque/model/orm.py): the Task    *)
(* row with its column defaults and onupdate hooks, the BaseMixin columns *)
(* and the LifeCycleMixin flag operations, together with the task         *)
(* operations the specification defines on top of them (create,           *)
(* advance_retry, mark_completed) and the factories imported from         *)
(* torque.model.due and torque.model.constants.                           *)
(***************************************************************************)
EXTENDS Integers, FiniteSets, Sequences, TLC

(* ------------------------------ bounds -------------------------------- *)
\* Last clock reading of the safety specifications.
MaxTime == 3
\* Largest timeout (seconds) a task is created with.
MaxTimeout == 2
\* The version counter is not advanced past this value.
MaxVersion == 4
\* Rows inserted at most into each of applications, api_keys and tasks
\* where ownership is followed.
MaxRows == 2

(* ------------------- torque.model.constants / due --------------------- *)
\* The retry ceiling of the status factory.
MAX_RETRIES == 3

QUEUED == "QUEUED"
RETRYING == "RETRYING"
FAILED == "FAILED"
COMPLETED == "COMPLETED"
TASK_STATUSES == {QUEUED, RETRYING, FAILED, COMPLETED}

\* Mutant: a curve that shortens the wait as the retries go up.
DueFactoryShrinking(tm, rc, clock) == clock + tm * (MAX_RETRIES + 1 - rc) + 1

\* DueFactory()(timeout, retry_count), read at clock reading `clock`:
\* the current time plus the timeout plus one second, backing off
\* linearly with the retry count.
DueFactory(tm, rc, clock) == clock + tm * (rc + 1) + 1

\* StatusFactory()(retry_count).
StatusFactory(rc) ==
    IF rc = 0 THEN QUEUED
    ELSE IF rc < MAX_RETRIES THEN RETRYING
    ELSE FAILED

(* ------------------------------- state -------------------------------- *)
VARIABLES
    now,          \* datetime.utcnow()
    task_ids,     \* ids of the rows of table `tasks`
    timeout,      \* Task.timeout, by id
    retry_count,  \* Task.retry_count
    due,          \* Task.due
    status,       \* Task.status
    version,      \* Task.version (BaseMixin)
    modified,     \* Task.modified (BaseMixin)
    call,         \* per worker: the task operation it is executing
    is_active,    \* LifeCycleMixin flags and datetimes of one entity
    is_deleted,
    activated,
    deactivated,
    deleted,
    undeleted,
    ent_state,    \* "transient" (constructed) or "persistent" (inserted)
    ent_version,  \* BaseMixin.version of the entity
    ent_modified, \* BaseMixin.modified of the entity
    ent_dirty,    \* the entity has attribute changes not yet flushed
    last_op,      \* the last lifecycle call: its name, whether the flag changed
    ent_class,    \* the mapped class of the entity
    hist,         \* the entity's last call on each flag, and how it began
    app_ids,      \* ids of the rows of table `applications`
    api_keys,     \* rows of table `api_keys`: id and app_id
    app_tasks,    \* rows of table `tasks`: id and app_id
    row_seq,      \* last id assigned in each of the three tables
    payload,      \* Task.url, charset, enctype, headers, body, by id
    summary,      \* what the last call of Task.__json__ returned
    sched         \* two due dates computed at one clock reading

task_vars == <<task_ids, timeout, retry_count, due, status, version, modified>>
life_vars == <<is_active, is_deleted, activated, deactivated, deleted,
               undeleted, ent_state, ent_version, ent_modified, ent_dirty,
               last_op, ent_class, hist>>
own_vars == <<app_ids, api_keys, app_tasks, row_seq>>
json_vars == <<payload, summary>>
rest_vars == <<own_vars, json_vars, sched>>
vars == <<now, task_vars, call, life_vars, rest_vars>>

\* The model follows one row of table `tasks`.
TaskIds == {1}
Workers == {"w1", "w2"}
Timeouts == 0 .. MaxTimeout
Terminal == {FAILED, COMPLETED}

\* A NULL DateTime column.
NoTime == -1

\* Mutant: retry_count defaulting to 1.
RetryCountDefaultOne == 0 + 1

\* Column defaults (Column(..., default=...)).
RetryCountDefault == 0
VersionDefault == 1

\* A row of `tasks` not yet inserted, no call of __json__ yet, nothing
\* scheduled yet.
NoPayload == [url |-> "", charset |-> "", enctype |-> "", headers |-> <<>>,
              body |-> ""]
NoData == [k \in {} |-> ""]
NoSummary == [result |-> "none", task |-> 0, include_request_data |-> FALSE,
              data |-> NoData]
NoSched == [timeout |-> 0, retry_count1 |-> 0, retry_count2 |-> 0,
            due1 |-> 0, due2 |-> 0, at |-> 0]

NoCall == [pc |-> "idle", op |-> "none", task |-> 0, read_version |-> 0,
           read_retry_count |-> 0, read_timeout |-> 0, outcome |-> "none"]

(* ----------------------- the onupdate / default hooks ----------------- *)
\* params = context.current_parameters: the columns the statement carries.
\* Mutant: the due hook also unpacks a parameter no statement carries.
next_due_ok_extra(params) ==
    {"timeout", "retry_count", "due"} \subseteq DOMAIN params

next_due_ok(params) == {"timeout", "retry_count"} \subseteq DOMAIN params

\* Mutant: the factory called with its arguments swapped.
next_due_swapped(params, clock) ==
    DueFactory(params["retry_count"], params["timeout"], clock)

\* Mutant: the factory reading the clock of the start, not of the call.
next_due_epoch(params, clock) ==
    DueFactory(params["timeout"], params["retry_count"], 0)

next_due(params, clock) ==
    DueFactory(params["timeout"], params["retry_count"], clock)

next_status_ok(params) == "retry_count" \in DOMAIN params

\* Mutant: the status hook unpacking the timeout, as next_due does.
next_status_of_timeout(params) == StatusFactory(params["timeout"])

next_status(params) == StatusFactory(params["retry_count"])

\* Value of column `col` after a statement carrying `params`: the value
\* given, else the column's hook, else the value stored (`old`).
Given(params, col, old) == IF col \in DOMAIN params THEN params[col] ELSE old

\* An UPDATE raises KeyError out of a hook that misses its parameter.
UpdateOk(params) ==
    /\ ("due" \in DOMAIN params \/ next_due_ok(params))
    /\ ("status" \in DOMAIN params \/ next_status_ok(params))

DueOnUpdate(params, old) ==
    IF "due" \in DOMAIN params THEN params["due"] ELSE next_due(params, now)

\* Mutant: the onupdate hook overriding the status the statement sets.
StatusOnUpdateHookOnly(params, old) == next_status(params)

\* Mutant: the status column without its onupdate hook.
StatusOnUpdateStale(params, old) == Given(params, "status", old)

StatusOnUpdate(params, old) ==
    IF "status" \in DOMAIN params THEN params["status"] ELSE next_status(params)

\* Mutant: the version given by the statement is not stored.
VersionOnUpdateKept(params, old) == old

VersionOnUpdate(params, old) == Given(params, "version", old)

\* UPDATE tasks SET <params>, <onupdate columns> WHERE id = t
UpdateTask(t, params) ==
    IF UpdateOk(params)
    THEN /\ timeout' = [timeout EXCEPT ![t] = Given(params, "timeout", @)]
         /\ retry_count' =
                [retry_count EXCEPT ![t] = Given(params, "retry_count", @)]
         /\ due' = [due EXCEPT ![t] = DueOnUpdate(params, @)]
         /\ status' = [status EXCEPT ![t] = StatusOnUpdate(params, @)]
         /\ version' = [version EXCEPT ![t] = VersionOnUpdate(params, @)]
         /\ modified' = [modified EXCEPT ![t] = now]
         /\ UNCHANGED task_ids
    ELSE UNCHANGED task_vars

\* INSERT INTO tasks (timeout) VALUES (tm): every other column by default.
InsertTask(t, tm) ==
    LET rc == RetryCountDefault
        params == ("timeout" :> tm) @@ ("retry_count" :> rc)
    IN  /\ task_ids' = task_ids \cup {t}
        /\ timeout' = [timeout EXCEPT ![t] = tm]
        /\ retry_count' = [retry_count EXCEPT ![t] = rc]
        /\ due' = [due EXCEPT ![t] = next_due(params, now)]
        /\ status' = [status EXCEPT ![t] = next_status(params)]
        /\ version' = [version EXCEPT ![t] = VersionDefault]
        /\ modified' = [modified EXCEPT ![t] = now]

(* ------------------------- task operations ---------------------------- *)
\* The clock advances.
Tick ==
    /\ now < MaxTime
    /\ now' = now + 1
    /\ UNCHANGED <<task_vars, call, life_vars, rest_vars>>

\* create(timeout, url, ...): ValidationError on timeout <= 0 or an empty
\* url, else the row is inserted with the next id.
CreateTask(tm, url_ok) ==
    LET t == Cardinality(task_ids) + 1
    IN  /\ t \in TaskIds
        /\ IF tm > 0 /\ url_ok
           THEN InsertTask(t, tm)
           ELSE UNCHANGED task_vars
        /\ UNCHANGED <<now, call, life_vars, rest_vars>>

\* The snapshot a worker loads of task t before it writes.
Load(w, t, name) ==
    [pc |-> "loaded", op |-> name, task |-> t,
     read_version |-> version[t], read_retry_count |-> retry_count[t],
     read_timeout |-> timeout[t], outcome |-> "none"]

Raise(w, t, name, error) ==
    [pc |-> "done", op |-> name, task |-> t,
     read_version |-> version[t], read_retry_count |-> retry_count[t],
     read_timeout |-> timeout[t], outcome |-> error]

\* Mutant: advance_retry() refusing FAILED tasks only.
AdvanceRefusedFailedOnly(st) == st = FAILED

\* Whether advance_retry() refuses a task in status st.
AdvanceRefused(st) == st \in Terminal

\* advance_retry(), first half: TerminalStateError on a terminal task,
\* else read the row and its version.
BeginAdvanceRetry(w, t) ==
    /\ call[w].pc = "idle"
    /\ t \in task_ids
    /\ (AdvanceRefused(status[t]) \/ version[t] < MaxVersion)
    /\ call' = [call EXCEPT ![w] =
                  IF AdvanceRefused(status[t])
                  THEN Raise(w, t, "advance_retry", "TerminalStateError")
                  ELSE Load(w, t, "advance_retry")]
    /\ UNCHANGED <<now, task_vars, life_vars, rest_vars>>

\* mark_completed(), first half: TerminalStateError on a FAILED task.
BeginMarkCompleted(w, t) ==
    /\ call[w].pc = "idle"
    /\ t \in task_ids
    /\ (status[t] = FAILED \/ version[t] < MaxVersion)
    /\ call' = [call EXCEPT ![w] =
                  IF status[t] = FAILED
                  THEN Raise(w, t, "mark_completed", "TerminalStateError")
                  ELSE Load(w, t, "mark_completed")]
    /\ UNCHANGED <<now, task_vars, life_vars, rest_vars>>

\* The columns the operation's UPDATE carries: the row's timeout and
\* retry count (the parameters the hooks unpack), the new version, and
\* for mark_completed the status.
WriteParams(c) ==
    IF c.op = "advance_retry"
    THEN ("retry_count" :> c.read_retry_count + 1)
         @@ ("timeout" :> c.read_timeout)
         @@ ("version" :> c.read_version + 1)
    ELSE ("status" :> COMPLETED)
         @@ ("retry_count" :> c.read_retry_count)
         @@ ("timeout" :> c.read_timeout)
         @@ ("version" :> c.read_version + 1)

\* Whether the conditional write of call c goes through.
VersionMatches(c) == version[c.task] = c.read_version

\* Second half of either operation: the write conditioned on the version
\* read; ConcurrentModificationError and no write when it has moved.
Write(w) ==
    LET c == call[w]
    IN  /\ c.pc = "loaded"
        /\ IF VersionMatches(c)
           THEN /\ UpdateTask(c.task, WriteParams(c))
                /\ call' = [call EXCEPT ![w].pc = "done",
                               ![w].outcome = IF UpdateOk(WriteParams(c))
                                              THEN "ok" ELSE "KeyError"]
           ELSE /\ UNCHANGED task_vars
                /\ call' = [call EXCEPT ![w].pc = "done",
                               ![w].outcome = "ConcurrentModificationError"]
        /\ UNCHANGED <<now, life_vars, rest_vars>>

\* The caller takes the outcome; the worker is free again.
Return(w) ==
    /\ call[w].pc = "done"
    /\ call' = [call EXCEPT ![w] = NoCall]
    /\ UNCHANGED <<now, task_vars, life_vars, rest_vars>>

\* A persisted update of row t that changes neither timeout nor
\* retry_count; cols are the ones of the two its statement carries.
TouchTask(t, cols) ==
    /\ t \in task_ids
    /\ UpdateTask(t, [c \in cols |->
                        IF c = "timeout" THEN timeout[t] ELSE retry_count[t]])
    /\ UNCHANGED <<now, call, life_vars, rest_vars>>

(* ------------------------- LifeCycleMixin ----------------------------- *)
\* The mapped classes and the mixins each is declared with.
Classes == {"Application", "APIKey", "Task"}

Bases(cls) ==
    IF cls = "Task" THEN {"BaseMixin"} ELSE {"BaseMixin", "LifeCycleMixin"}

HasLifeCycle(cls) == "LifeCycleMixin" \in Bases(cls)

\* Mutant: the datetime recorded on every call.
FlagChangedAlways(stored_value, flag_value) == TRUE

\* The condition under which _set_life_cycle_state records the datetime.
FlagChanged(stored_value, flag_value) == stored_value # flag_value

\* _set_life_cycle_state(flag_name, flag_value, dt_name), called as `name`.
\* A flag not yet assigned reads "None".
SetLifeCycleState(name, flag_name, flag_value, dt_name) ==
    LET stored_value == IF flag_name = "is_active" THEN is_active
                        ELSE is_deleted
        changed == FlagChanged(stored_value, flag_value)
        Stamp(dt, old) == IF changed /\ dt_name = dt THEN now ELSE old
    IN  /\ HasLifeCycle(ent_class)
        /\ hist' = IF flag_name = "is_active"
                   THEN [hist EXCEPT !.active_call = name]
                   ELSE [hist EXCEPT !.deleted_call = name]
        /\ is_active' = IF flag_name = "is_active" THEN flag_value
                        ELSE is_active
        /\ is_deleted' = IF flag_name = "is_deleted" THEN flag_value
                         ELSE is_deleted
        /\ activated' = Stamp("activated", activated)
        /\ deactivated' = Stamp("deactivated", deactivated)
        /\ deleted' = Stamp("deleted", deleted)
        /\ undeleted' = Stamp("undeleted", undeleted)
        /\ ent_dirty' = (ent_dirty \/ changed)
        /\ last_op' = [name |-> name, changed |-> changed,
                       turn |-> 1 - last_op.turn]
        /\ UNCHANGED <<now, task_vars, call, ent_state, ent_version,
                       ent_modified, ent_class, rest_vars>>

activate == SetLifeCycleState("activate", "is_active", "True", "activated")

\* Mutant: deactivate() naming the datetime of activate().
deactivate_stamps_activated ==
    SetLifeCycleState("deactivate", "is_active", "False", "activated")

deactivate ==
    SetLifeCycleState("deactivate", "is_active", "False", "deactivated")

delete == SetLifeCycleState("delete", "is_deleted", "True", "deleted")

undelete == SetLifeCycleState("undelete", "is_deleted", "False", "undeleted")

\* active_clauses(): is_active == True, is_deleted == False.
ActiveClauses == is_active = "True" /\ is_deleted = "False"

\* A collaborator filters the persistent entity by active_clauses().
QueryActive ==
    /\ ent_state = "persistent"
    /\ HasLifeCycle(ent_class)
    /\ hist' = [hist EXCEPT !.visible =
                    IF ActiveClauses THEN "True" ELSE "False"]
    /\ UNCHANGED <<now, task_vars, call, is_active, is_deleted, activated,
                   deactivated, deleted, undeleted, ent_state, ent_version,
                   ent_modified, ent_dirty, last_op, ent_class, rest_vars>>

\* Mutants: the flags defaulting the other way.
IsActiveDefaultFalse(v) == IF v = "None" THEN "False" ELSE v
IsDeletedDefaultTrue(v) == IF v = "None" THEN "True" ELSE v

\* Column defaults of the flags, applied to a flag left unassigned.
IsActiveDefault(v) == IF v = "None" THEN "True" ELSE v
IsDeletedDefault(v) == IF v = "None" THEN "False" ELSE v

\* The entity is added to the session and flushed: INSERT.
InsertEntity ==
    /\ ent_state = "transient"
    /\ ent_state' = "persistent"
    /\ is_active' = IF HasLifeCycle(ent_class)
                    THEN IsActiveDefault(is_active) ELSE is_active
    /\ is_deleted' = IF HasLifeCycle(ent_class)
                     THEN IsDeletedDefault(is_deleted) ELSE is_deleted
    /\ hist' = [hist EXCEPT !.defaulted =
                    is_active = "None" /\ is_deleted = "None"]
    /\ ent_version' = VersionDefault
    /\ ent_modified' = now
    /\ ent_dirty' = FALSE
    /\ UNCHANGED <<now, task_vars, call, activated, deactivated, deleted,
                   undeleted, last_op, ent_class, rest_vars>>

\* BaseMixin.version after an UPDATE of the row: the column has no
\* onupdate and the mapper no version counter.
EntityVersionOnUpdate(old) == old

\* The pending attribute changes of a persistent entity are flushed: UPDATE.
FlushEntity ==
    /\ ent_state = "persistent"
    /\ ent_dirty
    /\ ent_dirty' = FALSE
    /\ ent_modified' = now
    /\ ent_version' = EntityVersionOnUpdate(ent_version)
    /\ UNCHANGED <<now, task_vars, call, is_active, is_deleted, activated,
                   deactivated, deleted, undeleted, ent_state, last_op,
                   ent_class, hist, rest_vars>>

(* ------------------------------ Spec ---------------------------------- *)
TaskInit ==
    /\ task_ids = {}
    /\ timeout = [t \in TaskIds |-> 0]
    /\ retry_count = [t \in TaskIds |-> 0]
    /\ due = [t \in TaskIds |-> 0]
    /\ status = [t \in TaskIds |-> QUEUED]
    /\ version = [t \in TaskIds |-> 0]
    /\ modified = [t \in TaskIds |-> 0]
    /\ call = [w \in Workers |-> NoCall]

LifeInit ==
    /\ is_active = "None"
    /\ is_deleted = "None"
    /\ activated = NoTime
    /\ deactivated = NoTime
    /\ deleted = NoTime
    /\ undeleted = NoTime
    /\ ent_state = "transient"
    /\ ent_version = 0
    /\ ent_modified = NoTime
    /\ ent_dirty = FALSE
    /\ last_op = [name |-> "none", changed |-> FALSE, turn |-> 0]
    /\ ent_class \in Classes
    /\ hist = [active_call |-> "none", deleted_call |-> "none",
               defaulted |-> FALSE, visible |-> "none"]

RestInit ==
    /\ app_ids = {}
    /\ api_keys = {}
    /\ app_tasks = {}
    /\ row_seq = [applications |-> 0, api_keys |-> 0, tasks |-> 0]
    /\ payload = [t \in TaskIds |-> NoPayload]
    /\ summary = NoSummary
    /\ sched = NoSched

Init ==
    /\ now = 0
    /\ TaskInit
    /\ LifeInit
    /\ ent_class = "Application"
    /\ RestInit

Next ==
    \/ Tick
    \/ \E tm \in Timeouts, url_ok \in BOOLEAN : CreateTask(tm, url_ok)
    \/ \E w \in Workers, t \in TaskIds : BeginAdvanceRetry(w, t)
    \/ \E w \in Workers, t \in TaskIds : BeginMarkCompleted(w, t)
    \/ \E w \in Workers : Write(w)
    \/ \E w \in Workers : Return(w)
    \/ \E t \in TaskIds, cols \in SUBSET {"timeout", "retry_count"} :
          TouchTask(t, cols)

Spec == Init /\ [][Next]_vars

\* The life cycle of one entity (an Application or an APIKey).
LifeNext ==
    \/ Tick
    \/ activate
    \/ deactivate
    \/ delete
    \/ undelete
    \/ InsertEntity
    \/ FlushEntity
    \/ QueryActive

LifeStart == now = 0 /\ TaskInit /\ LifeInit /\ RestInit

LifeSpec == LifeStart /\ [][LifeNext]_vars

(* ----------------------------- ownership ------------------------------ *)
\* Task.app_id is nullable: a task with no owner.
NoApp == 0

\* An Application is inserted.
AddApplication ==
    /\ row_seq.applications < MaxRows
    /\ row_seq' = [row_seq EXCEPT !.applications = @ + 1]
    /\ app_ids' = app_ids \cup {row_seq.applications + 1}
    /\ UNCHANGED <<now, task_vars, call, life_vars, api_keys, app_tasks,
                   json_vars, sched>>

\* An APIKey is inserted; it belongs to Application a.
AddAPIKey(a) ==
    /\ a \in app_ids
    /\ row_seq.api_keys < MaxRows
    /\ row_seq' = [row_seq EXCEPT !.api_keys = @ + 1]
    /\ api_keys' = api_keys \cup {[id |-> row_seq.api_keys + 1, app_id |-> a]}
    /\ UNCHANGED <<now, task_vars, call, life_vars, app_ids, app_tasks,
                   json_vars, sched>>

\* A Task is inserted; it belongs to Application a or to none.
AddTask(a) ==
    /\ a \in app_ids \cup {NoApp}
    /\ row_seq.tasks < MaxRows
    /\ row_seq' = [row_seq EXCEPT !.tasks = @ + 1]
    /\ app_tasks' = app_tasks \cup {[id |-> row_seq.tasks + 1, app_id |-> a]}
    /\ UNCHANGED <<now, task_vars, call, life_vars, app_ids, api_keys,
                   json_vars, sched>>

\* Mutant: the tasks backref without its delete cascade: the rows stay,
\* their app_id set to NULL.
TasksAfterRemoveNulled(a) ==
    {IF r.app_id = a THEN [r EXCEPT !.app_id = NoApp] ELSE r : r \in app_tasks}

\* The backrefs api_keys and tasks cascade "all, delete-orphan": the rows
\* left when Application a is removed.
KeysAfterRemove(a) == {r \in api_keys : r.app_id # a}

TasksAfterRemove(a) == {r \in app_tasks : r.app_id # a}

\* Application a is removed from the session and the removal flushed.
RemoveApplication(a) ==
    /\ a \in app_ids
    /\ app_ids' = app_ids \ {a}
    /\ api_keys' = KeysAfterRemove(a)
    /\ app_tasks' = TasksAfterRemove(a)
    /\ UNCHANGED <<now, task_vars, call, life_vars, row_seq, json_vars,
                   sched>>

OwnNext ==
    \/ AddApplication
    \/ \E a \in 1 .. MaxRows : AddAPIKey(a)
    \/ \E a \in 0 .. MaxRows : AddTask(a)
    \/ \E a \in 1 .. MaxRows : RemoveApplication(a)

OwnSpec == Init /\ [][OwnNext]_vars

(* ---------------------------- rescheduling ---------------------------- *)
\* The due hook run at one clock reading for one timeout and two retry
\* counts r1 <= r2, as two UPDATEs of rows with that timeout would run it.
Reschedule(tm, r1, r2) ==
    /\ r1 <= r2
    /\ sched' = [timeout |-> tm, retry_count1 |-> r1, retry_count2 |-> r2,
                 due1 |-> next_due([timeout |-> tm, retry_count |-> r1], now),
                 due2 |-> next_due([timeout |-> tm, retry_count |-> r2], now),
                 at |-> now]
    /\ UNCHANGED <<now, task_vars, call, life_vars, own_vars, json_vars>>

DueNext ==
    \/ Tick
    \/ \E tm \in Timeouts, r1, r2 \in 0 .. MAX_RETRIES : Reschedule(tm, r1, r2)

DueSpec == Init /\ [][DueNext]_vars

(* ---------------------------- Task.__json__ --------------------------- *)
\* JSON text is a sequence of tokens: the punctuation "{", "}", ":", ","
\* and the strings of JsonStrings. A headers mapping takes its keys from
\* HeaderKeys and its values from HeaderValues.
KeyOrder == <<"a", "b">>
HeaderKeys == {KeyOrder[i] : i \in DOMAIN KeyOrder}
HeaderValues == {"x", "y"}
JsonStrings == HeaderKeys \cup HeaderValues
HeaderMappings ==
    UNION {[ks -> HeaderValues] : ks \in SUBSET HeaderKeys}

RECURSIVE DumpMembers(_, _)
DumpMembers(m, keys) ==
    IF keys = <<>>
    THEN <<>>
    ELSE LET k == Head(keys)
             rest == DumpMembers(m, Tail(keys))
         IN  <<k, ":", m[k]>> \o
             (IF rest = <<>> THEN <<>> ELSE <<",">> \o rest)

\* The text a mapping is encoded to before it is stored in headers.
Dumps(m) ==
    <<"{">> \o DumpMembers(m, SelectSeq(KeyOrder, LAMBDA k : k \in DOMAIN m))
           \o <<"}">>

DecodeError == [ok |-> FALSE, value |-> NoData]

\* The members of an object from token i on, acc the members read so far;
\* of a key that comes twice the last value is kept.
RECURSIVE ParseMembers(_, _, _)
ParseMembers(text, i, acc) ==
    IF /\ i + 3 <= Len(text)
       /\ text[i] \in JsonStrings
       /\ text[i + 1] = ":"
       /\ text[i + 2] \in JsonStrings
    THEN LET got == [k \in DOMAIN acc \cup {text[i]} |->
                        IF k = text[i] THEN text[i + 2] ELSE acc[k]]
         IN  IF text[i + 3] = "}" /\ i + 3 = Len(text)
             THEN [ok |-> TRUE, value |-> got]
             ELSE IF text[i + 3] = ","
                  THEN ParseMembers(text, i + 4, got)
                  ELSE DecodeError
    ELSE DecodeError

\* Mutant: a decoder that answers with what it could read, and with the
\* empty mapping at worst, where the text is not valid.
LoadsLenient(text) ==
    IF text = <<"{", "}">>
    THEN [ok |-> TRUE, value |-> NoData]
    ELSE IF Len(text) >= 1 /\ text[1] = "{"
         THEN [ok |-> TRUE, value |-> ParseMembers(text, 2, NoData).value]
         ELSE [ok |-> TRUE, value |-> NoData]

\* json.loads(text): the mapping, or ValueError where text is not valid.
Loads(text) ==
    IF text = <<"{", "}">>
    THEN [ok |-> TRUE, value |-> NoData]
    ELSE IF Len(text) >= 1 /\ text[1] = "{"
         THEN ParseMembers(text, 2, NoData)
         ELSE DecodeError

\* Texts that are no JSON: the empty text, an object left open, a comma
\* with no member after it, a member with no colon.
MalformedTexts ==
    {<<>>, <<"{">>, <<"{", "a", ":", "x", ",", "}">>, <<"{", "a", "x", "}">>}

\* Valid text that no encoder writes: one key twice.
RepeatedKeyText == <<"{", "a", ":", "x", ",", "a", ":", "y", "}">>

HeaderTexts ==
    {Dumps(m) : m \in HeaderMappings} \cup {RepeatedKeyText}
        \cup MalformedTexts

DEFAULT_CHARSET == "DEFAULT_CHARSET"
DEFAULT_ENCTYPE == "DEFAULT_ENCTYPE"
Bodies == {"", "body"}

\* datetime.isoformat(): the reading as decimal digits.
isoformat(d) == <<d \div 10, d % 10>>

\* A Task is inserted with its url, headers and body given, charset and
\* enctype by default.
StoreTask(tm, text, body) ==
    LET t == Cardinality(task_ids) + 1
    IN  /\ t \in TaskIds
        /\ InsertTask(t, tm)
        /\ payload' = [payload EXCEPT ![t] =
                          [url |-> "url", charset |-> DEFAULT_CHARSET,
                           enctype |-> DEFAULT_ENCTYPE, headers |-> text,
                           body |-> body]]
        /\ UNCHANGED <<now, call, life_vars, own_vars, summary, sched>>

\* Mutant: the request data given whether asked for or not.
IncludesRequestDataAlways(include_request_data) == TRUE

IncludesRequestData(include_request_data) == include_request_data

\* Task.__json__(include_request_data) of task t.
Json(t, include_request_data) ==
    LET data == [due |-> isoformat(due[t]), id |-> t,
                 retry_count |-> retry_count[t], status |-> status[t],
                 timeout |-> timeout[t], url |-> payload[t].url]
        headers == Loads(payload[t].headers)
        returned(result, d) ==
            [result |-> result, task |-> t,
             include_request_data |-> include_request_data, data |-> d]
    IN  /\ t \in task_ids
        /\ summary' =
              IF IncludesRequestData(include_request_data)
              THEN IF headers.ok
                   THEN returned("ok",
                            data @@ [charset |-> payload[t].charset,
                                     enctype |-> payload[t].enctype,
                                     headers |-> headers.value,
                                     body |-> payload[t].body])
                   ELSE returned("ValueError", NoData)
              ELSE returned("ok", data)
        /\ UNCHANGED <<now, task_vars, call, life_vars, own_vars, payload,
                       sched>>

JsonNext ==
    \/ Tick
    \/ \E tm \in 1 .. MaxTimeout, text \in HeaderTexts, body \in Bodies :
           StoreTask(tm, text, body)
    \/ \E t \in TaskIds, include_request_data \in BOOLEAN :
           Json(t, include_request_data)

JsonSpec == Init /\ [][JsonNext]_vars

(* ---------------------------- dispatcher ------------------------------ *)
\* The dispatcher's poll: due <= now and status in {QUEUED, RETRYING}.
Polled(t) ==
    /\ t \in task_ids
    /\ due[t] <= now
    /\ status[t] \in {QUEUED, RETRYING}

\* A worker attempts a polled task: mark_completed() on success,
\* advance_retry() on failure or timeout.
Dispatch(w, t) ==
    /\ Polled(t)
    /\ \/ BeginMarkCompleted(w, t)
       \/ BeginAdvanceRetry(w, t)

\* Time a task needs at most from creation to its last attempt.
RetryBudget ==
    MaxTimeout * ((MAX_RETRIES * (MAX_RETRIES + 1)) \div 2) + MAX_RETRIES

\* The clock advances while the dispatcher has no polled task to attempt.
LiveTick ==
    /\ now < MaxTime + RetryBudget
    /\ \A t \in TaskIds : ~Polled(t)
    /\ now' = now + 1
    /\ UNCHANGED <<task_vars, call, life_vars, rest_vars>>

LiveCreate(tm, url_ok) ==
    /\ now <= MaxTime
    /\ CreateTask(tm, url_ok)

LiveNext ==
    \/ LiveTick
    \/ \E tm \in Timeouts, url_ok \in BOOLEAN : LiveCreate(tm, url_ok)
    \/ \E w \in Workers, t \in TaskIds : Dispatch(w, t)
    \/ \E w \in Workers : Write(w)
    \/ \E w \in Workers : Return(w)

LiveSpec ==
    /\ Init
    /\ [][LiveNext]_vars
    /\ WF_vars(LiveTick)
    /\ \A w \in Workers :
          /\ WF_vars(\E t \in TaskIds : Dispatch(w, t))
          /\ WF_vars(Write(w))
          /\ WF_vars(Return(w))

(* ============================ properties ============================== *)
\* Two distinct workers whose advance_retry() calls on the same task have
\* both ended, having read the same version.
RacedAdvance(w1, w2) ==
    /\ w1 # w2
    /\ call[w1].pc = "done" /\ call[w2].pc = "done"
    /\ call[w1].op = "advance_retry" /\ call[w2].op = "advance_retry"
    /\ call[w1].task = call[w2].task
    /\ call[w1].read_version = call[w2].read_version
    /\ call[w1].outcome # "TerminalStateError"
    /\ call[w2].outcome # "TerminalStateError"

C1_RaceState ==
    \A w1, w2 \in Workers :
        RacedAdvance(w1, w2) =>
            /\ {call[w1].outcome, call[w2].outcome}
                   = {"ok", "ConcurrentModificationError"}
            /\ retry_count[call[w1].task] = call[w1].read_retry_count + 1
            /\ retry_count[call[w1].task] = call[w2].read_retry_count + 1
            /\ version[call[w1].task] = call[w1].read_version + 1

C1_LoserWritesNothing ==
    \A w \in Workers :
        (call[w].pc = "loaded"
            /\ call'[w].outcome = "ConcurrentModificationError")
        => task_vars' = task_vars

\* C1: of two concurrent advance_retry() calls on the same task that read
\* the same version, exactly one ends ok and the other ends with
\* ConcurrentModificationError; the failing write changes no column; and
\* once both have ended retry_count and version are exactly 1 above the
\* values both calls read.
C1_OneWriterWins == [](C1_RaceState) /\ [][C1_LoserWritesNothing]_vars

C1_Witness ==
    \E w1, w2 \in Workers :
        /\ RacedAdvance(w1, w2)
        /\ call[w1].outcome = "ok"
        /\ call[w2].outcome = "ConcurrentModificationError"
        /\ retry_count[call[w1].task] = call[w2].read_retry_count + 1

\* C2: once the status of a task is COMPLETED or FAILED, no step changes it.
C2_TerminalAbsorbing ==
    [][\A t \in task_ids :
          status[t] \in Terminal => status'[t] = status[t]]_vars

\* The flag a lifecycle call sets, the value it sets it to, and its
\* own datetime column before and after the step.
OpFlag(n) == IF n \in {"activate", "deactivate"} THEN is_active ELSE is_deleted
OpValue(n) == IF n \in {"activate", "delete"} THEN "True" ELSE "False"
OpStampBefore(n) ==
    CASE n = "activate" -> activated
      [] n = "deactivate" -> deactivated
      [] n = "delete" -> deleted
      [] OTHER -> undeleted
OpStampAfter(n) ==
    CASE n = "activate" -> activated'
      [] n = "deactivate" -> deactivated'
      [] n = "delete" -> deleted'
      [] OTHER -> undeleted'

\* C3: a call of activate(), deactivate(), delete() or undelete() writes
\* its datetime column with the current time if the stored flag differs
\* from the value being set, and leaves that column as it was if the flag
\* already holds the value.
C3_StampIffFlagChanges ==
    [][last_op' # last_op =>
          LET n == last_op'.name
          IN  IF OpFlag(n) # OpValue(n)
              THEN OpStampAfter(n) = now
              ELSE OpStampAfter(n) = OpStampBefore(n)]_vars

\* activate() was just called on an entity already active, and activated
\* still holds the earlier time of the first call.
C3_Witness ==
    /\ last_op.name = "activate"
    /\ ~last_op.changed
    /\ is_active = "True"
    /\ activated # NoTime
    /\ activated < now

\* C4: advance_retry() begun on a task whose status is FAILED or COMPLETED
\* ends at once with TerminalStateError and leaves every column of the
\* task as it was; a call that ended so never writes.
C4_TerminalRefused ==
    [][\A w \in Workers :
          /\ (call[w].pc = "idle" /\ call'[w].op = "advance_retry"
                 /\ status[call'[w].task] \in Terminal)
             => /\ call'[w].pc = "done"
                /\ call'[w].outcome = "TerminalStateError"
                /\ task_vars' = task_vars
          /\ (call[w].outcome = "TerminalStateError"
                 /\ call'[w] # call[w])
             => /\ call'[w] = NoCall
                /\ task_vars' = task_vars]_vars

\* mark_completed() went through and the advance_retry() that followed
\* was refused, the status still COMPLETED.
C4_Witness ==
    \E w \in Workers :
        /\ call[w].op = "advance_retry"
        /\ call[w].outcome = "TerminalStateError"
        /\ status[call[w].task] = COMPLETED
        /\ version[call[w].task] = call[w].read_version

\* C5: a task whose status is not COMPLETED has status QUEUED iff
\* retry_count = 0, RETRYING iff 0 < retry_count < MAX_RETRIES and FAILED
\* iff retry_count >= MAX_RETRIES.
C5_StatusFollowsRetryCount ==
    \A t \in task_ids :
        status[t] # COMPLETED =>
            /\ (status[t] = QUEUED <=> retry_count[t] = 0)
            /\ (status[t] = RETRYING <=>
                    (0 < retry_count[t] /\ retry_count[t] < MAX_RETRIES))
            /\ (status[t] = FAILED <=> retry_count[t] >= MAX_RETRIES)

C5_Witness ==
    \E t \in task_ids : status[t] = RETRYING /\ retry_count[t] = 2

\* C6: the version of an entity is 1 once it is inserted and goes up by
\* exactly 1 with every flushed mutation, and changes in no other step.
C6_VersionCountsMutations ==
    [][/\ (ent_state = "transient" /\ ent_state' = "persistent")
             => ent_version' = 1
       /\ (ent_state = "persistent" /\ ent_dirty /\ ~ent_dirty')
             => ent_version' = ent_version + 1
       /\ (ent_state = "persistent" /\ ~(ent_dirty /\ ~ent_dirty'))
             => ent_version' = ent_version]_vars

\* C7: under the fair dispatcher every created task eventually has
\* status COMPLETED or FAILED, and its retry_count, the number of
\* advance_retry() calls that went through, never exceeds MAX_RETRIES.
C7_EveryTaskSettles ==
    /\ \A t \in TaskIds : (t \in task_ids) ~> (status[t] \in Terminal)
    /\ [](\A t \in task_ids : retry_count[t] <= MAX_RETRIES)

\* A task that exhausted its retries under the dispatcher.
C7_Witness ==
    \E t \in task_ids : status[t] = FAILED /\ retry_count[t] = MAX_RETRIES

\* A step in which worker w's advance_retry() write goes through.
AdvanceWritten(w) ==
    /\ call[w].pc = "loaded"
    /\ call[w].op = "advance_retry"
    /\ call'[w].outcome = "ok"

\* C8: the k-th advance_retry() that goes through on a task leaves
\* retry_count = k with status RETRYING while k < MAX_RETRIES and status
\* FAILED when k = MAX_RETRIES; a task is FAILED only with
\* retry_count = MAX_RETRIES.
C8_RetriesEndInFailed ==
    /\ [][\A w \in Workers :
             AdvanceWritten(w) =>
                 LET t == call[w].task
                     k == retry_count'[t]
                 IN  /\ k = call[w].read_retry_count + 1
                     /\ k <= MAX_RETRIES
                     /\ status'[t] = IF k < MAX_RETRIES THEN RETRYING
                                     ELSE FAILED]_vars
    /\ [](\A t \in task_ids :
             status[t] = FAILED => retry_count[t] = MAX_RETRIES)

\* MAX_RETRIES advances and no other write: the task is FAILED.
C8_Witness ==
    \E t \in task_ids :
        /\ status[t] = FAILED
        /\ retry_count[t] = MAX_RETRIES
        /\ version[t] = VersionDefault + MAX_RETRIES

\* C9: retry_count is 0 on the created row; every step leaves it as it is
\* or adds exactly 1, and it goes up exactly in the steps in which an
\* advance_retry() write goes through.
C9_RetryCountSteps ==
    [][\A t \in TaskIds :
          /\ (t \notin task_ids /\ t \in task_ids') => retry_count'[t] = 0
          /\ t \in task_ids =>
                /\ retry_count'[t] \in {retry_count[t], retry_count[t] + 1}
                /\ (retry_count'[t] = retry_count[t] + 1 <=>
                       \E w \in Workers :
                           AdvanceWritten(w) /\ call[w].task = t)]_vars

C9_Witness ==
    \E t \in task_ids, w \in Workers :
        /\ call[w].op = "advance_retry"
        /\ call[w].outcome = "ok"
        /\ call[w].task = t
        /\ retry_count[t] = 2

\* C10: the step that creates a task is taken with timeout > 0 and leaves
\* retry_count = 0, status QUEUED, version = 1 and due equal to the due
\* date factory's value for (timeout, 0), later than the clock reading.
C10_CreatedTask ==
    [][\A t \in TaskIds :
          (t \notin task_ids /\ t \in task_ids') =>
              /\ timeout'[t] > 0
              /\ retry_count'[t] = 0
              /\ status'[t] = QUEUED
              /\ version'[t] = 1
              /\ due'[t] = DueFactory(timeout'[t], 0, now)
              /\ due'[t] > now]_vars

\* A task just created at a clock reading past the start.
C10_Witness ==
    \E t \in task_ids :
        /\ now > 0
        /\ modified[t] = now
        /\ version[t] = 1
        /\ retry_count[t] = 0
        /\ status[t] = QUEUED
        /\ due[t] = now + timeout[t] + 1

\* C11: whenever the due date of a task is computed, when the row is
\* created and in every step that changes retry_count, the new due is the
\* factory's value for the new (timeout, retry_count) at the current clock
\* reading, and every due written is later than that reading.
C11_DueInTheFuture ==
    [][\A t \in TaskIds :
          /\ (t \in task_ids'
                 /\ (t \notin task_ids \/ retry_count'[t] # retry_count[t]))
             => /\ due'[t] = DueFactory(timeout'[t], retry_count'[t], now)
                /\ due'[t] > now
          /\ (t \in task_ids /\ due'[t] # due[t]) => due'[t] > now]_vars

\* A retry written at a clock reading past the start: due lies ahead.
C11_Witness ==
    \E t \in task_ids :
        /\ retry_count[t] > 0
        /\ now > 0
        /\ modified[t] = now
        /\ due[t] = now + timeout[t] * (retry_count[t] + 1) + 1

\* A step in which worker w's mark_completed() write goes through.
CompleteWritten(w) ==
    /\ call[w].pc = "loaded"
    /\ call[w].op = "mark_completed"
    /\ call'[w].outcome = "ok"

\* C12: a mark_completed() write that goes through on a QUEUED or RETRYING
\* task leaves status COMPLETED, version 1 higher and retry_count as it
\* was; mark_completed() begun on a FAILED task ends at once with
\* TerminalStateError and the task stays as it is, FAILED.
C12_MarkCompleted ==
    [][\A w \in Workers :
          /\ (CompleteWritten(w)
                 /\ status[call[w].task] \in {QUEUED, RETRYING})
             => LET t == call[w].task
                IN  /\ status'[t] = COMPLETED
                    /\ version'[t] = version[t] + 1
                    /\ retry_count'[t] = retry_count[t]
          /\ (call[w].pc = "idle" /\ call'[w].op = "mark_completed"
                 /\ status[call'[w].task] = FAILED)
             => /\ call'[w].pc = "done"
                /\ call'[w].outcome = "TerminalStateError"
                /\ task_vars' = task_vars]_vars

\* A RETRYING task was completed: status COMPLETED, retry_count kept.
C12_Witness ==
    \E w \in Workers :
        /\ call[w].op = "mark_completed"
        /\ call[w].outcome = "ok"
        /\ call[w].read_retry_count = 2
        /\ status[call[w].task] = COMPLETED
        /\ retry_count[call[w].task] = 2
        /\ version[call[w].task] = call[w].read_version + 1

\* The columns of the entity that LifeCycleMixin declares.
life_columns ==
    <<is_active, is_deleted, activated, deactivated, deleted, undeleted>>

\* C14: a persistent entity of any mapped class, Task included, holds both
\* flags, is_active and is_deleted.
C14_EveryEntityHasLifeCycle ==
    ent_state = "persistent" =>
        /\ is_active \in {"True", "False"}
        /\ is_deleted \in {"True", "False"}

\* C15: a persistent entity that began with the default flags satisfies
\* active_clauses() iff its last call among activate/deactivate was
\* activate or there was none, and its last call among delete/undelete was
\* undelete or there was none; the query reports exactly that and changes
\* no column of the entity.
C15_ActiveClauses ==
    /\ []((ent_state = "persistent" /\ HasLifeCycle(ent_class)
              /\ hist.defaulted)
          => (ActiveClauses <=>
                 /\ hist.active_call \in {"none", "activate"}
                 /\ hist.deleted_call \in {"none", "undelete"}))
    /\ [][hist'.visible # hist.visible =>
             /\ hist'.visible = IF ActiveClauses THEN "True" ELSE "False"
             /\ life_columns' = life_columns
             /\ <<ent_state, ent_version, ent_modified, ent_dirty>>'
                    = <<ent_state, ent_version, ent_modified, ent_dirty>>]_vars

\* Reactivated and undeleted after having been hidden: visible again.
C15_Witness ==
    /\ ent_state = "persistent"
    /\ hist.defaulted
    /\ hist.active_call = "activate"
    /\ hist.deleted_call = "undelete"
    /\ activated # NoTime
    /\ undeleted # NoTime
    /\ hist.visible = "True"
    /\ ActiveClauses

\* C19: activate() and deactivate() leave is_deleted, deleted and undeleted
\* as they are, delete() and undelete() leave is_active, activated and
\* deactivated as they are, and no call writes the datetime of its
\* opposite.
C19_LifeCycleFrame ==
    [][last_op' # last_op =>
          LET n == last_op'.name
          IN  /\ n \in {"activate", "deactivate"} =>
                    <<is_deleted, deleted, undeleted>>'
                        = <<is_deleted, deleted, undeleted>>
              /\ n \in {"delete", "undelete"} =>
                    <<is_active, activated, deactivated>>'
                        = <<is_active, activated, deactivated>>
              /\ n = "activate" => deactivated' = deactivated
              /\ n = "deactivate" => activated' = activated
              /\ n = "delete" => undeleted' = undeleted
              /\ n = "undelete" => deleted' = deleted]_vars

\* deactivate() just changed the flag of an entity whose other five
\* columns had all been written before.
C19_Witness ==
    /\ last_op.name = "deactivate"
    /\ last_op.changed
    /\ deactivated = now
    /\ activated # NoTime /\ activated < now
    /\ deleted # NoTime /\ deleted < now
    /\ undeleted # NoTime /\ undeleted < now

\* C20: for a persistent entity that began with the default flags and no
\* datetime: inactive implies deactivated set; activated set implies
\* deactivated set; with both set, activated >= deactivated when active
\* and deactivated >= activated when inactive; and the same for
\* is_deleted with deleted in the place of deactivated and undeleted in
\* the place of activated, the flag read the other way round.
C20_StampOrder ==
    (ent_state = "persistent" /\ HasLifeCycle(ent_class) /\ hist.defaulted)
    => /\ is_active = "False" => deactivated # NoTime
       /\ activated # NoTime => deactivated # NoTime
       /\ (activated # NoTime /\ deactivated # NoTime) =>
              IF is_active = "True" THEN activated >= deactivated
              ELSE deactivated >= activated
       /\ is_deleted = "True" => deleted # NoTime
       /\ undeleted # NoTime => deleted # NoTime
       /\ (deleted # NoTime /\ undeleted # NoTime) =>
              IF is_deleted = "True" THEN deleted >= undeleted
              ELSE undeleted >= deleted

\* Deactivated, reactivated later and deleted again after an undelete.
C20_Witness ==
    /\ ent_state = "persistent" /\ hist.defaulted
    /\ is_active = "True"
    /\ deactivated # NoTime /\ activated > deactivated
    /\ is_deleted = "True"
    /\ undeleted # NoTime /\ deleted > undeleted

\* C13: no APIKey and no Task refers to an Application that is not there;
\* the step that removes an Application removes exactly the APIKeys and
\* Tasks it owned and leaves every other row, the tasks with no owner
\* included, as it was.
C13_CascadeDelete ==
    /\ [](/\ \A k \in api_keys : k.app_id \in app_ids
          /\ \A t \in app_tasks : t.app_id \in app_ids \cup {NoApp})
    /\ [][\A a \in app_ids :
             a \notin app_ids' =>
                 /\ api_keys' = {k \in api_keys : k.app_id # a}
                 /\ app_tasks' = {t \in app_tasks : t.app_id # a}
                 /\ app_ids' = app_ids \ {a}]_vars

\* Application 1 is gone with the key and the task it owned; the key of
\* application 2 and the task with no owner are still there.
C13_Witness ==
    /\ app_ids = {2}
    /\ row_seq.api_keys = 2
    /\ row_seq.tasks = 2
    /\ \E k \in 1 .. 2 : api_keys = {[id |-> k, app_id |-> 2]}
    /\ \E t \in 1 .. 2 : app_tasks = {[id |-> t, app_id |-> NoApp]}

\* C16: for one timeout and one clock reading the due date does not
\* decrease with the retry count: computed for retry_count1 <=
\* retry_count2, due1 <= due2.
C16_MonotoneBackoff ==
    sched.retry_count1 <= sched.retry_count2 => sched.due1 <= sched.due2

\* Due dates computed after time has passed, for a positive timeout and
\* two different retry counts: the later retry is due later.
C16_Witness ==
    /\ sched.at > 0
    /\ sched.timeout > 0
    /\ sched.retry_count1 < sched.retry_count2
    /\ sched.due1 > sched.at
    /\ sched.due1 < sched.due2

SummaryKeys == {"due", "id", "retry_count", "status", "timeout", "url"}
RequestDataKeys == {"charset", "enctype", "headers", "body"}

\* C17: a call of Task.__json__ changes no column of the task. Without
\* the request data it succeeds, whatever the headers text, and returns
\* exactly the keys due, id, retry_count, status, timeout, url; with the
\* request data it returns exactly those and charset, enctype, headers,
\* body, headers being the mapping whose encoding was stored, and where
\* the stored headers text is malformed it fails with an error.
C17_JsonProjection ==
    [][summary' # summary =>
          LET t == summary'.task
              s == summary'
          IN  /\ task_vars' = task_vars
              /\ payload' = payload
              /\ ~s.include_request_data =>
                    /\ s.result = "ok"
                    /\ DOMAIN s.data = SummaryKeys
              /\ (s.include_request_data /\ s.result = "ok") =>
                    /\ DOMAIN s.data = SummaryKeys \cup RequestDataKeys
                    /\ s.data.charset = payload[t].charset
                    /\ s.data.enctype = payload[t].enctype
                    /\ s.data.body = payload[t].body
                    /\ \A m \in HeaderMappings :
                          payload[t].headers = Dumps(m) => s.data.headers = m
              /\ s.result = "ok" =>
                    /\ s.data.id = t
                    /\ s.data.retry_count = retry_count[t]
                    /\ s.data.status = status[t]
                    /\ s.data.timeout = timeout[t]
                    /\ s.data.url = payload[t].url
              /\ s.include_request_data =>
                    /\ payload[t].headers \in MalformedTexts
                          => s.result # "ok" /\ s.data = NoData
                    /\ (\E m \in HeaderMappings : payload[t].headers = Dumps(m))
                          => s.result = "ok"]_vars

\* A task stored with the encoding of a two-key mapping, asked for its
\* request data: the mapping is back under headers.
C17_Witness ==
    /\ 1 \in task_ids
    /\ payload[1].headers = Dumps([a |-> "x", b |-> "y"])
    /\ summary.result = "ok"
    /\ summary.include_request_data
    /\ summary.data.headers = [a |-> "x", b |-> "y"]

\* C18: a persisted update of a task, other than a worker's advance_retry
\* or mark_completed, that changes neither retry_count nor timeout leaves
\* due and status as they were.
C18_DueAndStatusFrame ==
    [][\A t \in task_ids :
          (/\ call' = call
           /\ t \in task_ids'
           /\ modified'[t] # modified[t] \/ due'[t] # due[t]
                  \/ status'[t] # status[t]
           /\ retry_count'[t] = retry_count[t]
           /\ timeout'[t] = timeout[t])
          => due'[t] = due[t] /\ status'[t] = status[t]]_vars

====
